---- MODULE Spec2Model ----
(***************************************************************************)
(* Shopping-cart widget: the shop page (CartUI / ProductUI / CartManager / *)
(* EventManager / initApp) and the checkout page (CartService /            *)
(* CartRenderer / CartController), which share the `listCart` cookie.      *)
(*                                                                         *)
(* JS arrays are sequences: JS index i is position i + 1.  A hole, null    *)
(* and undefined are all Null (all falsy, all serialised as `null`).       *)
(* Objects live in `heap` and arrays hold references, so that a copy of an *)
(* array shares its elements exactly as `[...arr]` does.                   *)
(* JS numbers are IEEE-754 doubles.  A price read from JSON is kept as the *)
(* decimal literal it was written with (an integer number of cents) and    *)
(* converted by ToDouble wherever the code computes with it.               *)
(***************************************************************************)
EXTENDS Integers, Sequences, FiniteSets, TLC

\* ---------------------------------------------------------------- bounds
MaxId == 3          \* product ids passed to the handlers are 0..MaxId
MaxQuantity == 3    \* a line's quantity is not driven above this

\* ------------------------------------------------------------- constants
MantissaBits == 53  \* significand width of an IEEE-754 double

Null == 0                      \* a hole / null / undefined slot of an array of references (references are >= 1)
NullValue == [null |-> TRUE]   \* the JSON value null
Absent == <<"absent">>         \* no listCart cookie is stored
NullProducts == <<NullValue>>  \* CartManager.products while it is null

Min(a, b) == IF a < b THEN a ELSE b
Max(a, b) == IF a > b THEN a ELSE b
Zeros(n) == [i \in 1..n |-> 0]

\* ------------------------------------------------------- IEEE-754 double
\* A positive double is [m |-> 53 bits, most significant first and equal
\* to 1, e |-> exponent of that first bit]; zero is Zero.  Bit strings are
\* processed 8 bits at a time so that every intermediate integer stays far
\* below 2^31.
Zero == [m |-> <<>>, e |-> 0]

Pow2(k) == <<1, 2, 4, 8, 16, 32, 64, 128, 256, 512, 1024, 2048, 4096, 8192,
             16384, 32768, 65536, 131072, 262144, 524288, 1048576>>[k + 1]

Bit(bits, i) == IF i \in 1..Len(bits) THEN bits[i] ELSE 0

\* The integer written by the 8 bits of `bits` that end at position hi.
ChunkVal(bits, hi) ==
    Bit(bits, hi) + 2 * Bit(bits, hi - 1) + 4 * Bit(bits, hi - 2)
    + 8 * Bit(bits, hi - 3) + 16 * Bit(bits, hi - 4) + 32 * Bit(bits, hi - 5)
    + 64 * Bit(bits, hi - 6) + 128 * Bit(bits, hi - 7)

\* v written with exactly w bits, most significant first (v < 2^w, w <= 20).
BitsOf(v, w) == [j \in 1..w |-> (v \div Pow2(w - j)) % 2]

StripZeros(bits) ==
    LET ones == {i \in 1..Len(bits) : bits[i] = 1}
    IN IF ones = {} THEN <<>>
       ELSE SubSeq(bits, CHOOSE i \in ones : \A j \in ones : i <= j, Len(bits))

IntBits(n) == StripZeros(BitsOf(n, 20))

\* The first 8 * n binary digits of the fraction r / 100 (r < 100).
RECURSIVE FracBits(_, _)
FracBits(r, n) ==
    IF n = 0 THEN <<>>
    ELSE BitsOf((r * 256) \div 100, 8)
         \o FracBits((r * 256) % 100, n - 1)

\* What is left of r / 100 below those digits (non-zero iff inexact).
RECURSIVE FracRem(_, _)
FracRem(r, n) == IF n = 0 THEN r ELSE FracRem((r * 256) % 100, n - 1)

Increment(bits) ==
    LET zs == {i \in 1..Len(bits) : bits[i] = 0}
        k == CHOOSE i \in zs : \A j \in zs : j <= i
    IN [i \in 1..Len(bits) |-> IF i < k THEN bits[i] ELSE IF i = k THEN 1 ELSE 0]

\* Round to nearest, ties to even: bits (most significant first) is an
\* integer N, the value is N * 2^lsbExp plus a tail below the last bit that
\* is non-zero iff sticky.
RoundBits(bits, lsbExp, sticky) ==
    LET Rounded(s, e0) ==
            IF Len(s) = 0 THEN Zero
            ELSE IF Len(s) <= MantissaBits
                 THEN [m |-> s \o Zeros(MantissaBits - Len(s)), e |-> e0]
            ELSE IF ~(/\ s[MantissaBits + 1] = 1
                      /\ \/ sticky
                         \/ \E i \in (MantissaBits + 2)..Len(s) : s[i] = 1
                         \/ s[MantissaBits] = 1)
                 THEN [m |-> SubSeq(s, 1, MantissaBits), e |-> e0]
            ELSE IF \A i \in 1..MantissaBits : s[i] = 1
                 THEN [m |-> <<1>> \o Zeros(MantissaBits - 1), e |-> e0 + 1]
            ELSE [m |-> Increment(SubSeq(s, 1, MantissaBits)), e |-> e0]
        Stripped(s) == Rounded(s, lsbExp + Len(s) - 1)
    IN Stripped(StripZeros(bits))

\* The double nearest to the decimal literal c / 100 (what JSON.parse and
\* the JS reader make of a number written with two decimals).
ToDouble(c) ==
    RoundBits(IntBits(c \div 100) \o FracBits(c % 100, 9),
              0 - 72, FracRem(c % 100, 9) # 0)

\* A + B on bit strings, from the least significant chunk upwards.
RECURSIVE AddRec(_, _, _, _, _)
AddRec(A, B, hi, carry, acc) ==
    IF hi <= 0 THEN BitsOf(carry, 1) \o acc
    ELSE LET Step(t) == AddRec(A, B, hi - 8, t \div 256,
                               BitsOf(t % 256, 8) \o acc)
         IN Step(ChunkVal(A, hi) + ChunkVal(B, hi) + carry)

\* a + b on doubles (the JS + operator on two numbers).
DoubleAdd(a, b) ==
    IF a = Zero THEN b
    ELSE IF b = Zero THEN a
    ELSE LET Sum(A, B, n, lo) ==
                 RoundBits(AddRec(Zeros(n - Len(A)) \o A, Zeros(n - Len(B)) \o B,
                                  n, 0, <<>>), lo, FALSE)
             Aligned(A, B, lo) == Sum(A, B, Max(Len(A), Len(B)), lo)
             From(lo) == Aligned(a.m \o Zeros(a.e - (MantissaBits - 1) - lo),
                                 b.m \o Zeros(b.e - (MantissaBits - 1) - lo), lo)
         IN From(Min(a.e, b.e) - (MantissaBits - 1))

\* bits * q on a bit string, q < 256.
RECURSIVE MulRec(_, _, _, _, _)
MulRec(bits, q, hi, carry, acc) ==
    IF hi <= 0 THEN BitsOf(carry, 8) \o acc
    ELSE LET Step(t) == MulRec(bits, q, hi - 8, t \div 256,
                               BitsOf(t % 256, 8) \o acc)
         IN Step(ChunkVal(bits, hi) * q + carry)

\* a * q on doubles, q a small non-negative integer (the JS * operator; an
\* integer this small is itself an exact double).
DoubleMul(a, q) ==
    IF a = Zero \/ q = 0 THEN Zero
    ELSE RoundBits(MulRec(a.m, q, MantissaBits, 0, <<>>),
                   a.e - (MantissaBits - 1), FALSE)

\* ------------------------------------------------------ catalog (input)
\* product.json is not part of the repository; the code reads the fields
\* id, name, price and image of each record.  Text is a sequence of
\* one-character strings; price is the decimal literal in cents.
Product(id, name, price, image) ==
    [id |-> id, name |-> name, price |-> price, image |-> image]

CatalogEndToEnd ==   \* 10.00 and 5.50
    << Product(1, <<"A">>, 1000, <<"a">>), Product(2, <<"B">>, 550, <<"b">>) >>
CatalogDecimal ==    \* 0.10 and 0.20
    << Product(1, <<"A">>, 10, <<"a">>), Product(2, <<"B">>, 20, <<"b">>) >>
CatalogText ==       \* names "A=" and "B;"
    << Product(1, <<"A", "=">>, 1000, <<"a">>),
       Product(2, <<"B", ";">>, 550, <<"b">>) >>
Catalogs == {CatalogEndToEnd, CatalogDecimal, CatalogText}

ProductIds == 0..MaxId
Operations == {"increase", "decrease"}

\* ------------------------------------------------------------ JS arrays
\* arr[i] of a JS array; a missing index reads as undefined.
At(arr, i) == IF i + 1 \in 1..Len(arr) THEN arr[i + 1] ELSE Null

\* Mutant: arr.push(v) in place of arr[i] = v.
PushAt(arr, i, v) == Append(arr, v)

\* arr[i] = v, which lengthens the array with holes when i >= arr.length.
SetAt(arr, i, v) ==
    [k \in 1..Max(Len(arr), i + 1) |->
        IF k = i + 1 THEN v ELSE IF k <= Len(arr) THEN arr[k] ELSE Null]

\* Mutant: arr.splice(i, 1), which closes the gap and shifts what follows.
SpliceAt(arr, i) ==
    [k \in 1..(Len(arr) - 1) |-> IF k < i + 1 THEN arr[k] ELSE arr[k + 1]]

\* delete arr[i]: the slot becomes a hole, the length stays.
DeleteAt(arr, i) ==
    [k \in 1..Len(arr) |-> IF k = i + 1 THEN Null ELSE arr[k]]

\* The indices ForEach visits: holes are skipped, in ascending index order.
Present(arr) == {i \in 0..(Len(arr) - 1) : arr[i + 1] # Null}

\* Mutant: the slots are visited from the last index down.
ForEachDescending(arr) ==
    LET Ordered(P) == [k \in 1..Cardinality(P) |->
                          CHOOSE i \in P : Cardinality({j \in P : j > i}) = k - 1]
    IN Ordered(Present(arr))

\* Array.prototype.forEach's visiting order, as the sequence of indices.
ForEachOrder(arr) ==
    LET Ordered(P) == [k \in 1..Cardinality(P) |->
                          CHOOSE i \in P : Cardinality({j \in P : j < i}) = k - 1]
    IN Ordered(Present(arr))

\* ----------------------------------------------------------------- heap
\* heap maps the references in use to the objects they denote.
NewRef(h, k) ==      \* the k-th reference not in use
    CHOOSE r \in 1..(Cardinality(DOMAIN h) + k) :
        /\ r \notin DOMAIN h
        /\ Cardinality({x \in 1..r : x \notin DOMAIN h}) = k

\* Objects no array refers to any more are dropped.
Collect(h, arrays) ==
    [r \in (DOMAIN h) \cap UNION {{a[k] : k \in 1..Len(a)} : a \in arrays} |-> h[r]]

\* The lines of an array of references, by value: index -> object.
Lines(arr, h) == [i \in Present(arr) |-> h[At(arr, i)]]

\* ------------------------------------------------------- JSON.stringify
Digit(d) == <<"0", "1", "2", "3", "4", "5", "6", "7", "8", "9">>[d + 1]

\* The decimal numeral of n (n < 100000), one character per element.
Numeral(n) ==
    LET Significant(all, sig) ==
            SubSeq(all, CHOOSE k \in sig : \A j \in sig : k <= j, 5)
        Padded(all) == Significant(all, {k \in 1..5 : all[k] # "0"} \cup {5})
    IN Padded(<< Digit(n \div 10000), Digit((n \div 1000) % 10),
                 Digit((n \div 100) % 10), Digit((n \div 10) % 10),
                 Digit(n % 10) >>)

Quoted(text) == <<"\"">> \o text \o <<"\"">>

\* JSON.stringify of a cart line: the product's own keys, then quantity.
StringifyLine(o) ==
    <<"{", "\"id\":">> \o Numeral(o.id)
    \o <<",", "\"name\":">> \o Quoted(o.name)
    \o <<",", "\"price\":">> \o Numeral(o.price)
    \o <<",", "\"image\":">> \o Quoted(o.image)
    \o <<",", "\"quantity\":">> \o Numeral(o.quantity) \o <<"}">>

RECURSIVE StringifyElems(_, _, _)
StringifyElems(arr, h, k) ==
    IF k > Len(arr) THEN <<>>
    ELSE (IF k > 1 THEN <<",">> ELSE <<>>)
         \o (IF arr[k] = Null THEN <<"null">> ELSE StringifyLine(h[arr[k]]))
         \o StringifyElems(arr, h, k + 1)

\* JSON.stringify(listCart): holes are written as null.
Stringify(arr, h) == <<"[">> \o StringifyElems(arr, h, 1) \o <<"]">>

\* ----------------------------------------------------------- JSON.parse
Failed == [ok |-> FALSE]
Tok(t, i) == IF i \in 1..Len(t) THEN t[i] ELSE "<end>"
Digits == {Digit(d) : d \in 0..9}
DigitValue(c) == CHOOSE d \in 0..9 : Digit(d) = c

RECURSIVE NumeralValue(_)
NumeralValue(ds) ==
    IF ds = <<>> THEN 0
    ELSE 10 * NumeralValue(SubSeq(ds, 1, Len(ds) - 1)) + DigitValue(ds[Len(ds)])

\* A number at position i: the longest run of digits.
ParseNumber(t, i) ==
    LET Run(last) == [ok |-> TRUE, val |-> NumeralValue(SubSeq(t, i, last)),
                      next |-> last + 1]
        Ends(ends) == IF ends = {} THEN Failed
                      ELSE Run(CHOOSE j \in ends : \A k \in ends : k <= j)
    IN Ends({j \in i..Len(t) : \A k \in i..j : t[k] \in Digits})

\* A string at position i: from a quote to the next quote.
ParseString(t, i) ==
    LET Upto(close) == [ok |-> TRUE, val |-> SubSeq(t, i + 1, close - 1),
                        next |-> close + 1]
        Closes(closes) ==
            IF Tok(t, i) # "\"" \/ closes = {} THEN Failed
            ELSE Upto(CHOOSE j \in closes : \A k \in closes : j <= k)
    IN Closes({j \in (i + 1)..Len(t) : t[j] = "\""})

\* One member of a line object, after the members read so far (r): the
\* key, a value read by Parse(_, _), then the token `after`.
Member(t, r, key, field, Parse(_, _), after) ==
    LET Value(v) ==
            IF ~v.ok \/ Tok(t, v.next) # after THEN Failed
            ELSE [ok |-> TRUE, next |-> v.next + 1,
                  val |-> (field :> v.val) @@ r.val]
    IN IF ~r.ok \/ Tok(t, r.next) # key THEN Failed
       ELSE Value(Parse(t, r.next + 1))

\* An object at position i: the members in the order StringifyLine writes.
ParseLine(t, i) ==
    Member(t,
      Member(t,
        Member(t,
          Member(t,
            Member(t, [ok |-> Tok(t, i) = "{", next |-> i + 1, val |-> <<>>],
                   "\"id\":", "id", ParseNumber, ","),
            "\"name\":", "name", ParseString, ","),
          "\"price\":", "price", ParseNumber, ","),
        "\"image\":", "image", ParseString, ","),
      "\"quantity\":", "quantity", ParseNumber, "}")

RECURSIVE ParseElems(_, _, _)
ParseElems(t, i, acc) ==
    LET Elem(e) ==
            IF ~e.ok THEN Failed
            ELSE IF Tok(t, e.next) = ","
                 THEN ParseElems(t, e.next + 1, Append(acc, e.val))
            ELSE IF Tok(t, e.next) = "]" /\ e.next = Len(t)
                 THEN [ok |-> TRUE, val |-> Append(acc, e.val)]
            ELSE Failed
    IN Elem(IF Tok(t, i) = "null"
            THEN [ok |-> TRUE, val |-> NullValue, next |-> i + 1]
            ELSE ParseLine(t, i))

\* JSON.parse of a cart text: [ok |-> TRUE, val |-> array of lines and
\* nulls], or Failed where JSON.parse throws a SyntaxError.
JSONParse(t) ==
    IF Tok(t, 1) # "[" THEN Failed
    ELSE IF Tok(t, 2) = "]" /\ Len(t) = 2 THEN [ok |-> TRUE, val |-> <<>>]
    ELSE ParseElems(t, 2, <<>>)

\* The parsed values as fresh objects: an array of references and the heap.
Materialize(vals, h) ==
    LET Built(arr) ==
            [arr |-> arr,
             heap |-> [r \in (DOMAIN h) \cup ({arr[k] : k \in 1..Len(arr)} \ {Null}) |->
                          IF r \in DOMAIN h THEN h[r]
                          ELSE vals[CHOOSE k \in 1..Len(vals) : arr[k] = r]]]
    IN Built([k \in 1..Len(vals) |->
                IF vals[k] = NullValue THEN Null
                ELSE NewRef(h, Cardinality({j \in 1..k : vals[j] # NullValue}))])

\* ------------------------------------------------------ document.cookie
\* The part of text before the first occurrence of the character c.
Before(text, c) ==
    LET Cut(hits) ==
            IF hits = {} THEN text
            ELSE SubSeq(text, 1, (CHOOSE k \in hits : \A j \in hits : k <= j) - 1)
    IN Cut({k \in 1..Len(text) : text[k] = c})

\* document.cookie = `listCart=${text}; expires=...; path=/;`: the browser
\* stores as the value what stands between the first "=" and the first ";".
WriteCookie(text) == Before(text, ";")

\* document.cookie.split('; ').find(row => row.startsWith('listCart='))
\* and then cookieValue.split('=')[1]: the stored value up to its first "=".
ReadCookie(value) == Before(value, "=")

\* ---------------------------------------------------------------- state
VARIABLES
    page,         \* the document loaded in the tab: "blank", "shop", "checkout"
    catalogFile,  \* what fetch('product.json') delivers when it succeeds
    fetch,        \* CartManager.loadProducts: "none", "pending", "done", "failed"
    products,     \* CartManager.products: NullProducts or the catalog
    productList,  \* ProductUI: the rendered product tiles (their ids)
    heap,         \* the cart line objects
    listCart,     \* CartManager.listCart: array of references, indexed by id
    cartUI,       \* CartUI: [list |-> rendered lines, totalQuantity |-> text]
    cookie,       \* the value stored under listCart, or Absent
    cartItems,    \* CartService.cartItems: array of references
    rendererUI,   \* CartRenderer: [list, totalQuantity, totalPrice]
    items,        \* an array an outside caller got from getCartItems
    lastOp,       \* history: the last handler run and the branch it took
    endToEnd,     \* history: steps of EndToEndScript matched so far, or -1
    firstAdded,   \* history: ids of the present lines, in order of creation
    procedural,   \* the procedural script (part_000, lines 1-132) on a page
                  \* of its own, given the same events: its globals, its
                  \* cookie and its markup
    drawer        \* CartUI: the inline style of the cart drawer,
                  \* [right |-> cart.style.right,
                  \*  transform |-> container.style.transform]

vars == << page, catalogFile, fetch, products, productList, heap, listCart,
           cartUI, cookie, cartItems, rendererUI, items, lastOp, endToEnd,
           firstAdded, procedural, drawer >>

EmptyHeap == [r \in {} |-> NullValue]
\* The cart markup before the first render (the static HTML is not part of
\* the repository; it is taken to show no line).
StaticCartUI == [list |-> <<>>, totalQuantity |-> 0]
StaticRendererUI == [list |-> <<>>, totalQuantity |-> 0, totalPrice |-> Zero]
\* The inline style of .cart and .container before the first click (the
\* markup is taken to carry no style attribute, so element.style reads '').
StaticDrawer == [right |-> "", transform |-> ""]

Op(op, id, effect, threw) ==
    [op |-> op, id |-> id, effect |-> effect, threw |-> threw]

\* add(1), add(1), add(2), changeQuantity(1, decrease), then the checkout
\* page, where the totals are computed.
EndToEndScript ==
    << <<"addToCart", 1>>, <<"addToCart", 1>>, <<"addToCart", 2>>,
       <<"decrease", 1>>, <<"CartController.init", 0>> >>

\* History bookkeeping, taken after the handler's own assignments.
Observe(op, id, effect, threw) ==
    /\ lastOp' = Op(op, id, effect, threw)
    /\ endToEnd' =
         IF endToEnd \in 0..(Len(EndToEndScript) - 1)
            /\ EndToEndScript[endToEnd + 1] = <<op, id>>
         THEN endToEnd + 1
         ELSE IF page' = "shop" /\ products' = CatalogEndToEnd
                 /\ Present(listCart') = {}
              THEN 0
              ELSE 0 - 1

\* ------------------------------------------------------- CartUI (shop)
\* openCart: the drawer slides in and the page content moves left.
openCart(style) ==
    [style EXCEPT !.right = "0", !.transform = "translateX(-400px)"]

\* closeCart: the drawer slides out and the page content moves back.
closeCart(style) ==
    [style EXCEPT !.right = "-100%", !.transform = "translateX(0)"]

toggleCartAlwaysOpens(style) == openCart(style)

\* toggleCart: opens when cart.style.right === '-100%', closes otherwise.
toggleCart(style) ==
    IF style.right = "-100%" THEN openCart(style) ELSE closeCart(style)

RECURSIVE SumQuantity(_, _, _, _)
SumQuantity(arr, h, order, k) ==
    IF k > Len(order) THEN 0
    ELSE h[At(arr, order[k])].quantity + SumQuantity(arr, h, order, k + 1)

\* renderCartItem: every field of the line is written into the markup.
renderCartItem(product) == product

\* updateCartDisplay(cartItems): clears the list, renders every non-empty
\* slot in forEach order and writes the summed quantity.
updateCartDisplay(arr, h) ==
    LET Each(order) ==
            [list |-> [k \in 1..Len(order) |->
                          renderCartItem(h[At(arr, order[k])])],
             totalQuantity |-> SumQuantity(arr, h, order, 1)]
    IN Each(ForEachOrder(arr))

\* ProductUI.render(products)
renderProducts(catalog) == [k \in 1..Len(catalog) |-> catalog[k].id]

\* -------------------------------------------------- CartManager (shop)
\* getCartItems: [...listCart], a new array holding the same references.
CartManager_getCartItems(arr) == [k \in 1..Len(arr) |-> arr[k]]

\* loadCart: the cookie row is looked up, cut at "=" and parsed; without a
\* cookie listCart keeps its value.  threw is the error JSON.parse raises.
CartManager_loadCart(c, current, h) ==
    LET Assigned(m) == [threw |-> "none", arr |-> m.arr, heap |-> m.heap]
        Parsed(parsed) ==
            IF ~parsed.ok
            THEN [threw |-> "SyntaxError", arr |-> current, heap |-> h]
            ELSE Assigned(Materialize(parsed.val, h))
    IN IF c = Absent THEN [threw |-> "none", arr |-> current, heap |-> h]
       ELSE Parsed(JSONParse(ReadCookie(c)))

\* Mutant: saveCart writes the cookie and does not re-render.
saveCartOnlyPersists(arr, h) ==
    /\ cookie' = WriteCookie(Stringify(arr, h))
    /\ cartUI' = cartUI

\* saveCart: writes the cookie, then re-renders from a fresh getCartItems().
CartManager_saveCart(arr, h) ==
    /\ cookie' = WriteCookie(Stringify(arr, h))
    /\ cartUI' = updateCartDisplay(CartManager_getCartItems(arr), h)

\* Mutant: the early return comes after a saveCart().
returnsAfterSave ==
    /\ UNCHANGED << heap, listCart, firstAdded >>
    /\ CartManager_saveCart(listCart, heap)

\* `return` before anything is written: if (!products) return,
\* if (!productToAdd) return, if (!listCart[productId]) return.
returnsEarly == UNCHANGED << heap, listCart, cartUI, cookie, firstAdded >>

\* Mutant: the predicate compares with <= instead of ==.
findProductAtMost(productCopy, productId) ==
    LET First(hits) ==
            IF hits = {} THEN NullValue
            ELSE productCopy[CHOOSE k \in hits : \A j \in hits : k <= j]
    IN First({k \in 1..Len(productCopy) : productCopy[k].id <= productId})

\* productCopy.find(p => p.id == productId)
findProduct(productCopy, productId) ==
    LET First(hits) ==
            IF hits = {} THEN NullValue
            ELSE productCopy[CHOOSE k \in hits : \A j \in hits : k <= j]
    IN First({k \in 1..Len(productCopy) : productCopy[k].id = productId})

\* Mutant: a new line starts at quantity 2.
newLineOfTwo(productToAdd) ==
    [id |-> productToAdd.id, name |-> productToAdd.name,
     price |-> productToAdd.price, image |-> productToAdd.image,
     quantity |-> 2]

\* productToAdd.quantity = 1: the copied product becomes the line.
newLine(productToAdd) ==
    [id |-> productToAdd.id, name |-> productToAdd.name,
     price |-> productToAdd.price, image |-> productToAdd.image,
     quantity |-> 1]

\* Mutant: the line is removed at 1 already (`<= 1` for `<= 0`).
removeIfAtMostOne(arr, h, productId) ==
    IF h[At(arr, productId)].quantity <= 1 THEN DeleteAt(arr, productId) ELSE arr

\* Mutant: the line is removed only below zero (`< 0` for `<= 0`).
removeIfNegative(arr, h, productId) ==
    IF h[At(arr, productId)].quantity < 0 THEN DeleteAt(arr, productId) ELSE arr

\* if (listCart[productId].quantity <= 0) delete listCart[productId]
removeIfEmpty(arr, h, productId) ==
    IF h[At(arr, productId)].quantity <= 0 THEN DeleteAt(arr, productId) ELSE arr

Without(seq, x) ==
    LET Kept(keep) ==
            [n \in 1..Cardinality(keep) |->
                seq[CHOOSE k \in keep : Cardinality({j \in keep : j < k}) = n - 1]]
    IN Kept({k \in 1..Len(seq) : seq[k] # x})

\* initApp: the shop page is loaded (or reloaded) and its script runs.  A
\* throw in loadCart ends initApp before the first updateDisplay; the
\* listeners are registered by then, so the page keeps handling events.
initApp ==
    LET Run(loaded) ==
         /\ fetch' = "pending"
         /\ products' = NullProducts
         /\ productList' = <<>>
         /\ listCart' = loaded.arr
         /\ heap' = loaded.heap
         /\ cartUI' = IF loaded.threw # "none" THEN StaticCartUI
                      ELSE updateCartDisplay(CartManager_getCartItems(loaded.arr),
                                             loaded.heap)
         /\ cartItems' = <<>>
         /\ rendererUI' = StaticRendererUI
         /\ items' = <<>>
         /\ firstAdded' = ForEachOrder(loaded.arr)
         /\ UNCHANGED << cookie, catalogFile >>
         /\ Observe("initApp", 0,
                    IF Present(loaded.arr) # {} THEN "loaded" ELSE "none",
                    loaded.threw)
    IN /\ page' = "shop"
       /\ Run(CartManager_loadCart(cookie, <<>>, EmptyHeap))

\* loadProducts, after the await: the fetch delivered the catalog.
loadProductsResolved ==
    /\ page = "shop"
    /\ fetch = "pending"
    /\ fetch' = "done"
    /\ products' = catalogFile
    /\ productList' = renderProducts(catalogFile)
    /\ UNCHANGED << page, catalogFile, heap, listCart, cartUI, cookie,
                    cartItems, rendererUI, items, firstAdded >>
    /\ Observe("loadProducts", 0, "resolved", "none")

\* Mutant: the catalog is assigned although the load failed.
loadProductsRejectedAssigns ==
    /\ page = "shop"
    /\ fetch = "pending"
    /\ fetch' = "failed"
    /\ products' = catalogFile
    /\ UNCHANGED << page, catalogFile, productList, heap, listCart,
                    cartUI, cookie, cartItems, rendererUI, items, firstAdded >>
    /\ Observe("loadProducts", 0, "rejected", "none")

\* loadProducts, after the await: the fetch was rejected; the catch logs.
loadProductsRejected ==
    /\ page = "shop"
    /\ fetch = "pending"
    /\ fetch' = "failed"
    /\ UNCHANGED << page, catalogFile, products, productList, heap, listCart,
                    cartUI, cookie, cartItems, rendererUI, items, firstAdded >>
    /\ Observe("loadProducts", 0, "rejected", "none")

\* addToCart(productId)
CartManager_addToCart(productId) ==
    LET Create(productToAdd, r) ==
            LET Store(arr, h) ==
                    /\ listCart' = arr
                    /\ heap' = h
                    /\ CartManager_saveCart(arr, h)
            IN /\ Store(SetAt(listCart, productId, r),
                        [x \in (DOMAIN heap) \cup {r} |->
                            IF x = r THEN newLine(productToAdd) ELSE heap[x]])
               /\ firstAdded' = Append(firstAdded, productId)
               /\ Observe("addToCart", productId, "created", "none")
        Increment1(old) ==
            /\ heap[old].quantity < MaxQuantity
            /\ heap' = [heap EXCEPT ![old].quantity = @ + 1]
            /\ listCart' = listCart
            /\ CartManager_saveCart(listCart, heap')
            /\ firstAdded' = firstAdded
            /\ Observe("addToCart", productId, "incremented", "none")
        Found(productToAdd) ==   \* the copy is JSON.parse(JSON.stringify(products))
            IF products = NullProducts \/ productToAdd = NullValue
            THEN /\ returnsEarly
                 /\ Observe("addToCart", productId, "none", "none")
            ELSE IF At(listCart, productId) = Null
                 THEN Create(productToAdd, NewRef(heap, 1))
                 ELSE Increment1(At(listCart, productId))
    IN /\ page = "shop"
       /\ UNCHANGED << page, catalogFile, fetch, products, productList,
                       cartItems, rendererUI, items >>
       /\ Found(findProduct(products, productId))

\* changeQuantity(productId, operation)
CartManager_changeQuantity(productId, operation) ==
    LET Removal(h, arr) ==
            /\ listCart' = arr
            /\ heap' = Collect(h, {arr, cartItems, items})
            /\ CartManager_saveCart(arr, heap')
            /\ firstAdded' = IF At(arr, productId) = Null
                             THEN Without(firstAdded, productId)
                             ELSE firstAdded
            /\ Observe(operation, productId,
                       IF At(arr, productId) = Null THEN "removed"
                       ELSE "decremented", "none")
        Decrease(h) == Removal(h, removeIfEmpty(listCart, h, productId))
        Line(old) ==
            IF old = Null
            THEN /\ returnsEarly
                 /\ Observe(operation, productId, "none", "none")
            ELSE IF operation = "increase"
            THEN /\ heap[old].quantity < MaxQuantity
                 /\ heap' = [heap EXCEPT ![old].quantity = @ + 1]
                 /\ listCart' = listCart
                 /\ CartManager_saveCart(listCart, heap')
                 /\ firstAdded' = firstAdded
                 /\ Observe(operation, productId, "incremented", "none")
            ELSE Decrease([heap EXCEPT ![old].quantity = @ - 1])
    IN /\ page = "shop"
       /\ UNCHANGED << page, catalogFile, fetch, products, productList,
                       cartItems, rendererUI, items >>
       /\ Line(At(listCart, productId))

\* ---------------------------------------------- CartService (checkout)
\* loadCart: as on the shop page, with `|| []` for a falsy parse result (a
\* cart text parses to an array, which is truthy).
CartService_loadCart(c, current, h) ==
    LET Assigned(m) == [threw |-> "none", arr |-> m.arr, heap |-> m.heap]
        Parsed(parsed) ==
            IF ~parsed.ok
            THEN [threw |-> "SyntaxError", arr |-> current, heap |-> h]
            ELSE Assigned(Materialize(parsed.val, h))
    IN IF c = Absent THEN [threw |-> "none", arr |-> current, heap |-> h]
       ELSE Parsed(JSONParse(ReadCookie(c)))

\* getCartItems: [...cartItems]
CartService_getCartItems(arr) == [k \in 1..Len(arr) |-> arr[k]]

\* calculateTotals: reduce over cartItems from { quantity: 0, price: 0 }, in
\* index order, skipping empty slots; price in double arithmetic.
RECURSIVE TotalsFrom(_, _, _, _)
TotalsFrom(arr, h, k, totals) ==
    IF k > Len(arr) THEN totals
    ELSE IF arr[k] = Null THEN TotalsFrom(arr, h, k + 1, totals)
    ELSE TotalsFrom(arr, h, k + 1,
            [quantity |-> totals.quantity + h[arr[k]].quantity,
             price |-> DoubleAdd(totals.price,
                                 DoubleMul(ToDouble(h[arr[k]].price),
                                           h[arr[k]].quantity))])

\* Mutant: the reducer adds the unit price without the quantity.
RECURSIVE TotalsFromUnitPrice(_, _, _, _)
TotalsFromUnitPrice(arr, h, k, totals) ==
    IF k > Len(arr) THEN totals
    ELSE IF arr[k] = Null THEN TotalsFromUnitPrice(arr, h, k + 1, totals)
    ELSE TotalsFromUnitPrice(arr, h, k + 1,
            [quantity |-> totals.quantity + h[arr[k]].quantity,
             price |-> DoubleAdd(totals.price, ToDouble(h[arr[k]].price))])

calculateTotalsUnitPrice(arr, h) ==
    TotalsFromUnitPrice(arr, h, 1, [quantity |-> 0, price |-> Zero])

calculateTotals(arr, h) == TotalsFrom(arr, h, 1, [quantity |-> 0, price |-> Zero])

\* --------------------------------------------- CartRenderer (checkout)
\* generateCartItemHTML: the line's fields and price * quantity.
generateCartItemHTML(product) ==
    [id |-> product.id, name |-> product.name, price |-> product.price,
     image |-> product.image, quantity |-> product.quantity,
     returnPrice |-> DoubleMul(ToDouble(product.price), product.quantity)]

\* renderCart(items): totals from CartService.calculateTotals(), then the
\* non-empty slots of items in forEach order.
renderCart(arr, service, h) ==
    LET Rendered(totals, order) ==
            [list |-> [k \in 1..Len(order) |->
                          generateCartItemHTML(h[At(arr, order[k])])],
             totalQuantity |-> totals.quantity,
             totalPrice |-> totals.price]
    IN Rendered(calculateTotals(service, h), ForEachOrder(arr))

\* CartController.init on DOMContentLoaded: the checkout page is loaded,
\* refreshCart loads the cart and renders it.  A throw in loadCart ends the
\* listener before renderCart.
CartController_init ==
    LET Run(loaded) ==
         /\ fetch' = "none"
         /\ products' = NullProducts
         /\ productList' = <<>>
         /\ listCart' = <<>>
         /\ cartUI' = StaticCartUI
         /\ cartItems' = loaded.arr
         /\ heap' = loaded.heap
         /\ rendererUI' = IF loaded.threw # "none" THEN StaticRendererUI
                          ELSE renderCart(CartService_getCartItems(loaded.arr),
                                          loaded.arr, loaded.heap)
         /\ items' = <<>>
         /\ firstAdded' = <<>>
         /\ UNCHANGED << cookie, catalogFile >>
         /\ Observe("CartController.init", 0,
                    IF Present(loaded.arr) # {} THEN "loaded" ELSE "none",
                    loaded.threw)
    IN /\ page' = "checkout"
       /\ Run(CartService_loadCart(cookie, <<>>, EmptyHeap))

\* ---------------------------------------- the procedural script (shop)
\* The script before it runs: let products = null, let listCart = [].
NotRunning ==
    [fetch |-> "none", products |-> NullProducts, productList |-> <<>>,
     listCart |-> <<>>, heap |-> EmptyHeap, cookie |-> Absent,
     ui |-> StaticCartUI, error |-> "none", drawer |-> StaticDrawer]

\* addDataToHTML: the product tiles.
addDataToHTML(catalog) == [k \in 1..Len(catalog) |-> catalog[k].id]

\* addCartToHTML: clears the list, renders every non-empty slot of listCart
\* in forEach order and writes the summed quantity.
addCartToHTML(arr, h) ==
    LET Each(order) ==
            [list |-> [k \in 1..Len(order) |-> h[At(arr, order[k])]],
             totalQuantity |-> SumQuantity(arr, h, order, 1)]
    IN Each(ForEachOrder(arr))

\* The script runs: the fetch is started, checkCart is defined but never
\* called (the cookie is not read), addCartToHTML() renders the empty cart.
proceduralScript ==
    [NotRunning EXCEPT !.fetch = "pending",
                       !.ui = addCartToHTML(<<>>, EmptyHeap)]

\* .then(data => { products = data; addDataToHTML(); })
fetchThen(p, data) ==
    [p EXCEPT !.fetch = "done", !.products = data,
              !.productList = addDataToHTML(data), !.error = "none"]

\* The fetch is rejected: the promise chain has no catch.
fetchRejected(p) ==
    [p EXCEPT !.fetch = "failed", !.error = "unhandledrejection"]

\* The tail of addCart and changeQuantity: the cookie is written and the
\* cart is rendered.
proceduralSave(p) ==
    [p EXCEPT !.cookie = WriteCookie(Stringify(p.listCart, p.heap)),
              !.ui = addCartToHTML(p.listCart, p.heap),
              !.error = "none"]

\* productCopy.filter(product => product.id == $idProduct)[0]
filterFirst(productCopy, idProduct) ==
    LET First(hits) ==
            IF hits = {} THEN NullValue
            ELSE productCopy[CHOOSE k \in hits : \A j \in hits : k <= j]
    IN First({k \in 1..Len(productCopy) : productCopy[k].id = idProduct})

\* addCart($idProduct): there is no guard on products or on the result of
\* the filter.  With products null, productCopy.filter throws; with an id
\* that is not in the catalog, listCart[$idProduct] = undefined has already
\* lengthened the array when the assignment of .quantity throws.
addCart(p, idProduct) ==
    LET Created(dataProduct, r) ==
            proceduralSave(
                [p EXCEPT !.listCart = SetAt(p.listCart, idProduct, r),
                          !.heap = [x \in (DOMAIN p.heap) \cup {r} |->
                                       IF x = r THEN newLine(dataProduct)
                                       ELSE p.heap[x]]])
        Filtered(dataProduct) ==
            IF dataProduct = NullValue
            THEN [p EXCEPT !.listCart = SetAt(p.listCart, idProduct, Null),
                           !.error = "TypeError"]
            ELSE Created(dataProduct, NewRef(p.heap, 1))
        Slot(old) ==
            IF old = Null
            THEN IF p.products = NullProducts
                 THEN [p EXCEPT !.error = "TypeError"]
                 ELSE Filtered(filterFirst(p.products, idProduct))
            ELSE proceduralSave([p EXCEPT !.heap[old].quantity = @ + 1])
    IN Slot(At(p.listCart, idProduct))

\* changeQuantity($idProduct, $type) with $type '+' or '-': there is no
\* guard on listCart[$idProduct], whose .quantity throws when it is absent.
changeQuantity(p, idProduct, type) ==
    LET Removed(arr, h) ==
            proceduralSave([p EXCEPT !.listCart = arr,
                                     !.heap = Collect(h, {arr})])
        Minus(h) == Removed(removeIfEmpty(p.listCart, h, idProduct), h)
        Slot(old) ==
            IF old = Null THEN [p EXCEPT !.error = "TypeError"]
            ELSE IF type = "+"
            THEN proceduralSave([p EXCEPT !.heap[old].quantity = @ + 1])
            ELSE Minus([p.heap EXCEPT ![old].quantity = @ - 1])
    IN Slot(At(p.listCart, idProduct))

\* iconCart's click listener: the same test, written with ==, and the same
\* two pairs of assignments inline.
iconCartClick(p) ==
    IF p.drawer.right = "-100%"
    THEN [p EXCEPT !.drawer.right = "0",
                   !.drawer.transform = "translateX(-400px)"]
    ELSE [p EXCEPT !.drawer.right = "-100%",
                   !.drawer.transform = "translateX(0)"]

\* close's click listener.
closeClick(p) ==
    [p EXCEPT !.drawer.right = "-100%", !.drawer.transform = "translateX(0)"]

\* The button of the procedural markup that stands for an operation.
TypeOf(operation) == IF operation = "increase" THEN "+" ELSE "-"

\* -------------------------------------------------------- specification
Init ==
    /\ page = "blank"
    /\ catalogFile \in Catalogs
    /\ fetch = "none"
    /\ products = NullProducts
    /\ productList = <<>>
    /\ heap = EmptyHeap
    /\ listCart = <<>>
    /\ cartUI = StaticCartUI
    /\ cookie = Absent
    /\ cartItems = <<>>
    /\ rendererUI = StaticRendererUI
    /\ items = <<>>
    /\ lastOp = Op("none", 0, "none", "none")
    /\ endToEnd = 0 - 1
    /\ firstAdded = <<>>
    /\ procedural = NotRunning
    /\ drawer = StaticDrawer

\* The pages of app.js and part_001; the procedural script is not opened.
Next ==
    \/ initApp /\ UNCHANGED << procedural, drawer >>
    \/ loadProductsResolved /\ UNCHANGED << procedural, drawer >>
    \/ loadProductsRejected /\ UNCHANGED << procedural, drawer >>
    \/ \E productId \in ProductIds :
           CartManager_addToCart(productId) /\ UNCHANGED << procedural, drawer >>
    \/ \E productId \in ProductIds, operation \in Operations :
           CartManager_changeQuantity(productId, operation)
           /\ UNCHANGED << procedural, drawer >>
    \/ CartController_init /\ UNCHANGED << procedural, drawer >>

Spec == Init /\ [][Next]_vars

\* ------------------------------------------------- an outside caller
\* CartManager and CartService export getCartItems; what the caller does
\* with the array it gets is the caller's code.
CallerQuantities == {0}

\* const items = CartManager.getCartItems() / CartService.getCartItems()
\* (the caller takes one snapshot per page load, to keep the model finite
\* and small)
callerGetsItems ==
    /\ page \in {"shop", "checkout"}
    /\ items = <<>>
    /\ items' = IF page = "shop" THEN CartManager_getCartItems(listCart)
                ELSE CartService_getCartItems(cartItems)
    /\ UNCHANGED << page, catalogFile, fetch, products, productList, heap,
                    listCart, cartUI, cookie, cartItems, rendererUI, firstAdded >>
    /\ Observe("getCartItems", 0, "none", "none")

\* items[i].quantity = q
callerSetsQuantity(i, q) ==
    /\ At(items, i) # Null
    /\ heap[At(items, i)].quantity # q
    /\ heap' = [heap EXCEPT ![At(items, i)].quantity = q]
    /\ UNCHANGED << page, catalogFile, fetch, products, productList, listCart,
                    cartUI, cookie, cartItems, rendererUI, items, firstAdded >>
    /\ Observe("items[i].quantity=", i, "none", "none")

\* items[i] = undefined
callerClearsSlot(i) ==
    /\ At(items, i) # Null
    /\ items' = DeleteAt(items, i)
    /\ heap' = Collect(heap, {listCart, cartItems, items'})
    /\ UNCHANGED << page, catalogFile, fetch, products, productList, listCart,
                    cartUI, cookie, cartItems, rendererUI, firstAdded >>
    /\ Observe("items[i]=", i, "none", "none")

NextWithCaller ==
    \/ Next
    \/ callerGetsItems /\ UNCHANGED << procedural, drawer >>
    \/ \E i \in ProductIds, q \in CallerQuantities :
           callerSetsQuantity(i, q) /\ UNCHANGED << procedural, drawer >>
    \/ \E i \in ProductIds : callerClearsSlot(i) /\ UNCHANGED << procedural, drawer >>

\* The caller is explored with one catalog.
InitWithCaller == Init /\ catalogFile = CatalogEndToEnd

SpecWithCaller == InitWithCaller /\ [][NextWithCaller]_vars

\* ------------------------------------- the two shop scripts side by side
\* Both scripts are loaded once, each on its own page with its own cookie,
\* and are given the same catalog file, the same outcome of the fetch and
\* the same clicks.
bothLoad ==
    /\ page = "blank"
    /\ initApp
    /\ procedural' = proceduralScript
    /\ drawer' = StaticDrawer

bothFetchResolved ==
    /\ loadProductsResolved
    /\ procedural' = fetchThen(procedural, catalogFile)
    /\ UNCHANGED drawer

bothFetchRejected ==
    /\ loadProductsRejected
    /\ procedural' = fetchRejected(procedural)
    /\ UNCHANGED drawer

bothAdd(productId) ==
    /\ CartManager_addToCart(productId)
    /\ procedural' = addCart(procedural, productId)
    /\ UNCHANGED drawer

bothChangeQuantity(productId, operation) ==
    /\ CartManager_changeQuantity(productId, operation)
    /\ procedural' = changeQuantity(procedural, productId, TypeOf(operation))
    /\ UNCHANGED drawer

NextSideBySide ==
    \/ bothLoad
    \/ bothFetchResolved
    \/ bothFetchRejected
    \/ \E productId \in ProductIds : bothAdd(productId)
    \/ \E productId \in ProductIds, operation \in Operations :
           bothChangeQuantity(productId, operation)

SpecSideBySide == Init /\ [][NextSideBySide]_vars

\* ------------------------------------------------------ the cart drawer
\* CartUI.init registers toggleCart on the cart icon and closeCart on the
\* close control before anything else of initApp runs; the procedural
\* script registers its two listeners at its top.  A click goes to both
\* pages.
bothIconCartClick ==
    /\ page = "shop"
    /\ UNCHANGED << page, catalogFile, fetch, products, productList, heap,
                    listCart, cartUI, cookie, cartItems, rendererUI, items,
                    firstAdded >>
    /\ drawer' = toggleCart(drawer)
    /\ procedural' = iconCartClick(procedural)
    /\ Observe("iconCart.click", 0, "none", "none")

bothCloseClick ==
    /\ page = "shop"
    /\ UNCHANGED << page, catalogFile, fetch, products, productList, heap,
                    listCart, cartUI, cookie, cartItems, rendererUI, items,
                    firstAdded >>
    /\ drawer' = closeCart(drawer)
    /\ procedural' = closeClick(procedural)
    /\ Observe("close.click", 0, "none", "none")

NextDrawer ==
    \/ NextSideBySide
    \/ bothIconCartClick
    \/ bothCloseClick

SpecDrawer == Init /\ [][NextDrawer]_vars

\* ----------------------------------------------------------- properties
Ids(list) == [k \in 1..Len(list) |-> list[k].id]
Ascending(seq) == \A j, k \in 1..Len(seq) : j < k => seq[j] < seq[k]
Mutated(op) == op.effect \in {"created", "incremented", "decremented", "removed"}

\* C1: whatever add / changeQuantity calls were made since the empty cart,
\* every line that is present - in the store, in the rendered cart and on
\* the checkout page - has quantity >= 1; a line that reaches 0 is gone.
C1_QuantityAtLeastOne ==
    /\ \A i \in Present(listCart) : heap[At(listCart, i)].quantity >= 1
    /\ \A k \in 1..Len(cartUI.list) : cartUI.list[k].quantity >= 1
    /\ \A i \in Present(cartItems) : heap[At(cartItems, i)].quantity >= 1
    /\ \A k \in 1..Len(rendererUI.list) : rendererUI.list[k].quantity >= 1

\* C1 witness: a decrease just took a line from quantity 1 to removal while
\* another line stays in the cart.
C1_Witness ==
    /\ lastOp.op = "decrease"
    /\ lastOp.effect = "removed"
    /\ At(listCart, lastOp.id) = Null
    /\ Present(listCart) # {}

\* C2: from the empty cart with the catalog {1: 10.00, 2: 5.50} loaded,
\* add(1), add(1), add(2), changeQuantity(1, decrease) leaves exactly the
\* lines 1 (quantity 1, price 10.00) and 2 (quantity 1, price 5.50) with a
\* total quantity of 2, and the totals computed from that cart are
\* quantity 2 and price 15.50.
C2_EndToEnd ==
    /\ endToEnd = 4 =>
         /\ Present(listCart) = {1, 2}
         /\ heap[At(listCart, 1)].quantity = 1 /\ heap[At(listCart, 1)].price = 1000
         /\ heap[At(listCart, 2)].quantity = 1 /\ heap[At(listCart, 2)].price = 550
         /\ cartUI.totalQuantity = 2
         /\ calculateTotals(listCart, heap) = [quantity |-> 2, price |-> ToDouble(1550)]
    /\ endToEnd = 5 =>
         /\ Present(cartItems) = {1, 2}
         /\ heap[At(cartItems, 1)].quantity = 1 /\ heap[At(cartItems, 1)].price = 1000
         /\ heap[At(cartItems, 2)].quantity = 1 /\ heap[At(cartItems, 2)].price = 550
         /\ rendererUI.totalQuantity = 2
         /\ rendererUI.totalPrice = ToDouble(1550)

\* C2 witness: the whole script has run and the checkout page shows the cart.
C2_Witness == endToEnd = 5 /\ page = "checkout" /\ Len(rendererUI.list) = 2

\* C3: addToCart with an id the loaded catalog does not hold changes neither
\* the cart, nor the cookie, nor the rendered cart and its total.
C3_AddUnknownIsNoOp ==
    [][(/\ lastOp'.op = "addToCart"
        /\ products # NullProducts
        /\ \A k \in 1..Len(products) : products[k].id # lastOp'.id)
       => /\ listCart' = listCart
          /\ Lines(listCart', heap') = Lines(listCart, heap)
          /\ cookie' = cookie
          /\ cartUI' = cartUI]_vars

\* C3 witness: an add of an id outside the loaded catalog ran on a cart that
\* holds a line.
C3_Witness ==
    /\ lastOp.op = "addToCart"
    /\ products # NullProducts
    /\ \A k \in 1..Len(products) : products[k].id # lastOp.id
    /\ Present(listCart) # {}

\* C4: a decrease on a line of quantity 1 removes the line; a decrease on an
\* id with no line changes nothing and throws nothing.
C4_DecreaseRemovesThenNoOp ==
    [][lastOp'.op = "decrease" =>
         /\ (/\ At(listCart, lastOp'.id) # Null
             /\ heap[At(listCart, lastOp'.id)].quantity = 1)
            => At(listCart', lastOp'.id) = Null
         /\ At(listCart, lastOp'.id) = Null
            => /\ listCart' = listCart
               /\ heap' = heap
               /\ cookie' = cookie
               /\ cartUI' = cartUI
               /\ lastOp'.threw = "none"]_vars

\* C4 witness: a decrease ran on an id whose slot is the hole a removal left
\* at the end of the array.
C4_Witness ==
    /\ lastOp.op = "decrease"
    /\ lastOp.effect = "none"
    /\ lastOp.id = Len(listCart) - 1
    /\ At(listCart, lastOp.id) = Null

\* The quantities and the prices of the lines of S, summed by index.
RECURSIVE QuantityOver(_, _, _)
QuantityOver(S, arr, h) ==
    IF S = {} THEN 0
    ELSE LET Rest(i) == h[At(arr, i)].quantity + QuantityOver(S \ {i}, arr, h)
         IN Rest(CHOOSE i \in S : \A j \in S : i <= j)

RECURSIVE CentsOver(_, _, _)
CentsOver(S, arr, h) ==
    IF S = {} THEN 0
    ELSE LET Rest(i) == h[At(arr, i)].price * h[At(arr, i)].quantity
                        + CentsOver(S \ {i}, arr, h)
         IN Rest(CHOOSE i \in S : \A j \in S : i <= j)

RECURSIVE PriceOver(_, _, _, _)
PriceOver(S, arr, h, sum) ==
    IF S = {} THEN sum
    ELSE LET Rest(i) ==
                 PriceOver(S \ {i}, arr, h,
                           DoubleAdd(sum, DoubleMul(ToDouble(h[At(arr, i)].price),
                                                    h[At(arr, i)].quantity)))
         IN Rest(CHOOSE i \in S : \A j \in S : i <= j)

SumsOf(arr, h) ==
    [quantity |-> QuantityOver(Present(arr), arr, h),
     price |-> PriceOver(Present(arr), arr, h, Zero)]

\* Every price of the cart is a multiple of 0.25, which a JS number holds
\* exactly; sums of such prices (of this size) are exact too.
Dyadic(arr, h) == \A i \in Present(arr) : h[At(arr, i)].price % 25 = 0

ExactSumsOf(arr, h) ==
    [quantity |-> QuantityOver(Present(arr), arr, h),
     price |-> ToDouble(CentsOver(Present(arr), arr, h))]

\* C5 (as claimed): after an add / changeQuantity has saved the cart, a
\* fresh load of either page reproduces the same lines and quantities.
C5_RoundTrip ==
    [][(Mutated(lastOp) /\ lastOp'.op \in {"initApp", "CartController.init"})
       => /\ lastOp'.op = "initApp"
             => Lines(listCart', heap') = Lines(listCart, heap)
          /\ lastOp'.op = "CartController.init"
             => Lines(cartItems', heap') = Lines(listCart, heap)]_vars

\* C6: the total quantity shown on the shop page is the sum of the
\* quantities of the present lines in every state; the totals of the cart
\* are that sum and the sum of price * quantity, taken line by line in the
\* arithmetic of JS numbers, which is the exact sum wherever the prices are
\* exactly representable; and the checkout page shows the totals of the
\* cart it loaded.
C6_TotalsAreSums ==
    /\ cartUI.totalQuantity = QuantityOver(Present(listCart), listCart, heap)
    /\ calculateTotals(listCart, heap) = SumsOf(listCart, heap)
    /\ calculateTotals(cartItems, heap) = SumsOf(cartItems, heap)
    /\ Dyadic(listCart, heap)
       => calculateTotals(listCart, heap) = ExactSumsOf(listCart, heap)
    /\ Dyadic(cartItems, heap)
       => calculateTotals(cartItems, heap) = ExactSumsOf(cartItems, heap)
    /\ (page = "checkout" /\ lastOp.threw = "none")
       => /\ rendererUI.totalQuantity = SumsOf(cartItems, heap).quantity
          /\ rendererUI.totalPrice = SumsOf(cartItems, heap).price

\* C6 witness: the checkout page shows the totals of two lines, one of them
\* with a quantity above 1.
C6_Witness ==
    /\ page = "checkout"
    /\ Cardinality(Present(cartItems)) = 2
    /\ Dyadic(cartItems, heap)
    /\ rendererUI.totalQuantity >= 3

\* C7 (as claimed): loading the cart never throws.
C7_LoadNeverThrows ==
    lastOp.op \in {"initApp", "CartController.init"} => lastOp.threw = "none"

\* C8 (as claimed): nothing the caller does to the array getCartItems
\* returned changes the lines of the store.
C8_SnapshotIsImmutable ==
    [][lastOp'.op \in {"items[i].quantity=", "items[i]="}
       => /\ Lines(listCart', heap') = Lines(listCart, heap)
          /\ Lines(cartItems', heap') = Lines(cartItems, heap)]_vars

\* C9 (as claimed): the cart lines are rendered in the order in which their
\* products were first added.
C9_InsertionOrder == page = "shop" => Ids(cartUI.list) = firstAdded

\* C9 (amended): the cart lines are rendered in ascending order of product
\* id (the index order of the array), each present line once, on both pages.
C9_IndexOrder ==
    /\ Ascending(Ids(cartUI.list))
    /\ {cartUI.list[k].id : k \in 1..Len(cartUI.list)} = Present(listCart)
    /\ Ascending(Ids(rendererUI.list))
    /\ {rendererUI.list[k].id : k \in 1..Len(rendererUI.list)} = Present(cartItems)

\* C9 witness: product 2 was added before product 1 and is rendered after it.
C9_Witness == firstAdded = <<2, 1>> /\ Ids(cartUI.list) = <<1, 2>>

\* C10 (as claimed): the total price shown is the exact decimal sum of
\* price * quantity over the lines.
C10_ExactDecimalTotal ==
    (page = "checkout" /\ lastOp.threw = "none")
    => rendererUI.totalPrice
         = ToDouble(CentsOver(Present(cartItems), cartItems, heap))

\* The catalog element with the given id, and whether there is one.
InCatalog(catalog, id) ==
    /\ catalog # NullProducts
    /\ \E k \in 1..Len(catalog) : catalog[k].id = id

CatalogEntry(catalog, id) ==
    catalog[CHOOSE k \in 1..Len(catalog) : catalog[k].id = id]

\* C11: add(productId) for a product of the loaded catalog either creates
\* the line as a fresh object holding the product's fields and quantity 1
\* (the product was not in the cart), or raises that line's quantity by 1
\* and leaves its other fields (it was); every other line, and the catalog,
\* stay as they were.
C11_AddCreatesOrIncrements ==
    [][(lastOp'.op = "addToCart" /\ InCatalog(products, lastOp'.id))
       => /\ At(listCart', lastOp'.id) # Null
          /\ IF At(listCart, lastOp'.id) = Null
             THEN /\ At(listCart', lastOp'.id) \notin DOMAIN heap
                  /\ heap'[At(listCart', lastOp'.id)]
                       = [id |-> lastOp'.id,
                          name |-> CatalogEntry(products, lastOp'.id).name,
                          price |-> CatalogEntry(products, lastOp'.id).price,
                          image |-> CatalogEntry(products, lastOp'.id).image,
                          quantity |-> 1]
             ELSE /\ At(listCart', lastOp'.id) = At(listCart, lastOp'.id)
                  /\ heap'[At(listCart, lastOp'.id)]
                       = [heap[At(listCart, lastOp'.id)] EXCEPT !.quantity = @ + 1]
          /\ Present(listCart') = Present(listCart) \cup {lastOp'.id}
          /\ \A j \in Present(listCart) \ {lastOp'.id} :
                /\ At(listCart', j) = At(listCart, j)
                /\ heap'[At(listCart, j)] = heap[At(listCart, j)]
          /\ products' = products]_vars

\* C11 witness: an add raised the quantity of a present line to 2 while
\* another line is in the cart.
C11_Witness ==
    /\ lastOp.op = "addToCart"
    /\ lastOp.effect = "incremented"
    /\ Cardinality(Present(listCart)) = 2
    /\ heap[At(listCart, lastOp.id)].quantity = 2

\* C12 (as claimed): after every add / changeQuantity that changed the
\* cart, the value stored under the cookie is the serialization of the
\* in-memory cart, and what a load reads back from it describes the same
\* lines and quantities.
C12_WriteThrough ==
    (page = "shop" /\ Mutated(lastOp))
    => /\ cookie = Stringify(listCart, heap)
       /\ LET Same(m) == Lines(m.arr, m.heap) = Lines(listCart, heap)
              Read(parsed) ==
                  parsed.ok /\ Same(Materialize(parsed.val, EmptyHeap))
          IN Read(JSONParse(ReadCookie(cookie)))

\* C13: while the catalog fetch is pending or has failed, add(productId)
\* changes neither the cart, the cookie nor the display and throws nothing;
\* once the catalog is loaded, add on a catalog id adds 1 to that line.
C13_InertUntilLoaded ==
    [][lastOp'.op = "addToCart"
       => /\ fetch # "done"
             => /\ listCart' = listCart
                /\ heap' = heap
                /\ cookie' = cookie
                /\ cartUI' = cartUI
                /\ lastOp'.threw = "none"
          /\ (fetch = "done" /\ InCatalog(catalogFile, lastOp'.id))
             => /\ At(listCart', lastOp'.id) # Null
                /\ heap'[At(listCart', lastOp'.id)].quantity
                     = IF At(listCart, lastOp'.id) = Null THEN 1
                       ELSE heap[At(listCart, lastOp'.id)].quantity + 1]_vars

\* C13 witness: with the fetch failed and a cart loaded from the cookie, an
\* add of a catalog id ran and did nothing.
C13_Witness ==
    /\ lastOp.op = "addToCart"
    /\ lastOp.effect = "none"
    /\ fetch = "failed"
    /\ InCatalog(catalogFile, lastOp.id)
    /\ Present(listCart) # {}

\* C14 (as claimed): whatever the state of the catalog fetch, a page load
\* that follows a saved mutation loads the persisted cart and renders it
\* without throwing, an increase / decrease on a present line changes its
\* quantity by one (removing it at 0), persists the cart and renders it, and
\* the completion of the fetch touches neither the cart nor the cookie nor
\* the rendered cart.
C14_CartPathIgnoresCatalog ==
    [][/\ (lastOp'.op = "initApp" /\ Mutated(lastOp))
          => /\ lastOp'.threw = "none"
             /\ Lines(listCart', heap') = Lines(listCart, heap)
             /\ cartUI' = updateCartDisplay(listCart', heap')
       /\ (lastOp'.op \in Operations /\ At(listCart, lastOp'.id) # Null)
          => /\ LET Changed(q, step) ==
                        IF q + step <= 0 THEN At(listCart', lastOp'.id) = Null
                        ELSE /\ At(listCart', lastOp'.id) = At(listCart, lastOp'.id)
                             /\ heap'[At(listCart, lastOp'.id)].quantity = q + step
                IN Changed(heap[At(listCart, lastOp'.id)].quantity,
                           IF lastOp'.op = "increase" THEN 1 ELSE 0 - 1)
             /\ cookie' = Stringify(listCart', heap')
             /\ cartUI' = updateCartDisplay(listCart', heap')
             /\ UNCHANGED << fetch, products, productList >>
       /\ lastOp'.op = "loadProducts"
          => UNCHANGED << listCart, heap, cookie, cartUI >>]_vars

\* The lines of an array in index order, as the list a renderer shows.
RenderedLines(arr, h) ==
    [k \in 1..Cardinality(Present(arr)) |->
        h[At(arr, CHOOSE i \in Present(arr) :
                      Cardinality({j \in Present(arr) : j < i}) = k - 1)]]

\* C15: in every state the cart view shows exactly the present lines of the
\* store with their current quantities and the sum of those quantities: on
\* the shop page the lines of listCart, on the checkout page the lines of
\* cartItems (with each line's own price * quantity beside them).
C15_ViewShowsStore ==
    /\ page = "shop"
       => /\ cartUI.list = RenderedLines(listCart, heap)
          /\ cartUI.totalQuantity = QuantityOver(Present(listCart), listCart, heap)
    /\ page = "checkout"
       => /\ Len(rendererUI.list) = Cardinality(Present(cartItems))
          /\ \A k \in 1..Len(rendererUI.list) :
                /\ rendererUI.list[k].id = RenderedLines(cartItems, heap)[k].id
                /\ rendererUI.list[k].quantity
                     = RenderedLines(cartItems, heap)[k].quantity
          /\ rendererUI.totalQuantity
               = QuantityOver(Present(cartItems), cartItems, heap)

\* C15 witness: a decrease lowered one of two lines and the rendered cart
\* shows both lines with the new quantity.
C15_Witness ==
    /\ page = "shop"
    /\ lastOp.op = "decrease"
    /\ lastOp.effect = "decremented"
    /\ Len(cartUI.list) = 2
    /\ \E k \in 1..2 : /\ cartUI.list[k].id = lastOp.id
                       /\ cartUI.list[k].quantity = heap[At(listCart, lastOp.id)].quantity

\* C19: a step of add / changeQuantity changes the sum of the line
\* quantities by exactly +1 (an add of a product of the loaded catalog, an
\* increase on a present line), by exactly -1 (a decrease on a present
\* line) or not at all (every other call); the sum is never negative.
C19_TotalMovesByOne ==
    [][/\ QuantityOver(Present(listCart'), listCart', heap') >= 0
       /\ lastOp'.op \in {"addToCart", "increase", "decrease"}
          => QuantityOver(Present(listCart'), listCart', heap')
               - QuantityOver(Present(listCart), listCart, heap)
             = IF lastOp'.op = "addToCart"
               THEN IF InCatalog(products, lastOp'.id) THEN 1 ELSE 0
               ELSE IF At(listCart, lastOp'.id) = Null THEN 0
               ELSE IF lastOp'.op = "increase" THEN 1 ELSE 0 - 1]_vars

\* C19 witness: a decrease took a line from 2 to 1 beside another line.
C19_Witness ==
    /\ lastOp.op = "decrease"
    /\ lastOp.effect = "decremented"
    /\ heap[At(listCart, lastOp.id)].quantity = 1
    /\ QuantityOver(Present(listCart), listCart, heap) >= 2

\* C20: a call that is a no-op - add with the catalog not loaded or with
\* an id that is not in it, changeQuantity on an id with no line - writes no
\* cookie and renders nothing: the stored value (or its absence) and the
\* rendered cart are what they were.
C20_NoOpWritesNothing ==
    [][(\/ lastOp'.op = "addToCart" /\ ~InCatalog(products, lastOp'.id)
        \/ lastOp'.op \in Operations /\ At(listCart, lastOp'.id) = Null)
       => /\ cookie' = cookie
          /\ cartUI' = cartUI
          /\ listCart' = listCart
          /\ heap' = heap]_vars

\* C20 witness: a no-op ran while no cookie was stored yet, where a save
\* would have created one.
C20_Witness ==
    /\ page = "shop"
    /\ lastOp.op \in {"addToCart", "increase", "decrease"}
    /\ lastOp.effect = "none"
    /\ cookie = Absent

\* C17 (as claimed): the catalog fetch is started by the page load only
\* (once per session), and when it resolves the product list is rendered
\* from the fetched catalog and the persisted cart has been loaded and
\* rendered by the same startup.
C17_StartupPipeline ==
    [][/\ fetch' = "pending" => (fetch = "pending" \/ lastOp'.op = "initApp")
       /\ lastOp'.op = "initApp" => fetch' = "pending"
       /\ (lastOp'.op = "loadProducts" /\ lastOp'.effect = "resolved")
          => /\ fetch = "pending" /\ fetch' = "done"
             /\ products' = catalogFile
             /\ productList' = renderProducts(catalogFile)
             /\ lastOp.op = "initApp"
                => /\ lastOp.threw = "none"
                   /\ cookie # Absent
                      => LET Same(m) ==
                                 Lines(m.arr, m.heap) = Lines(listCart', heap')
                             Read(parsed) ==
                                 parsed.ok /\ Same(Materialize(parsed.val, EmptyHeap))
                         IN Read(JSONParse(ReadCookie(cookie)))
                   /\ cartUI' = updateCartDisplay(listCart', heap')]_vars

\* C16 (as claimed): after a failed catalog load the catalog is unset, the
\* product list is empty and no error was left unhandled, in the modular
\* script and in the procedural one.
C16_FailedLoadRecovered ==
    /\ (page = "shop" /\ fetch = "failed")
       => /\ products = NullProducts
          /\ productList = <<>>
          /\ lastOp.op = "loadProducts" => lastOp.threw = "none"
    /\ procedural.fetch = "failed"
       => /\ procedural.products = NullProducts
          /\ procedural.productList = <<>>
          /\ lastOp.op = "loadProducts" => procedural.error = "none"

\* C18 (as claimed): given the same catalog and the same adds, increases
\* and decreases, the procedural script and CartManager hold the same lines
\* with the same quantities and have stored the same cookie value after
\* every step.
C18_SameBehaviour ==
    /\ Lines(procedural.listCart, procedural.heap) = Lines(listCart, heap)
    /\ procedural.cookie = cookie

DrawerClicks == {"iconCart.click", "close.click"}
Settled == {"0", "-100%"}

\* C21: on both shop pages, a click on the close control leaves the drawer
\* closed (right = '-100%'); a click on the cart icon leaves it open
\* (right = '0') exactly when it was closed before the click and closed
\* otherwise; after a click the drawer is open or closed and stays so until
\* the next click, whatever cart operations come in between; a drawer click
\* changes neither the cart, nor its rendering, nor the cookie.
C21_DrawerToggle ==
    [][LET Toggled(before) == IF before = "-100%" THEN "0" ELSE "-100%"
       IN /\ lastOp'.op = "close.click"
                => /\ drawer'.right = "-100%"
                   /\ procedural'.drawer.right = "-100%"
          /\ lastOp'.op = "iconCart.click"
                => /\ drawer'.right = Toggled(drawer.right)
                   /\ procedural'.drawer.right = Toggled(procedural.drawer.right)
          /\ lastOp'.op \in DrawerClicks
                => /\ drawer'.right \in Settled
                   /\ procedural'.drawer.right \in Settled
                   /\ UNCHANGED << listCart, heap, cartUI, cookie, products >>
                   /\ procedural'.listCart = procedural.listCart
                   /\ procedural'.heap = procedural.heap
                   /\ procedural'.ui = procedural.ui
                   /\ procedural'.cookie = procedural.cookie
          /\ (lastOp'.op \notin DrawerClicks /\ drawer.right \in Settled)
                => drawer' = drawer
          /\ (lastOp'.op \notin DrawerClicks
                /\ procedural.drawer.right \in Settled)
                => procedural'.drawer = procedural.drawer
      ]_vars

\* An icon click opened the drawer over a cart that holds a line, after an
\* earlier click had closed it.
C21_Witness ==
    /\ lastOp.op = "iconCart.click"
    /\ drawer.right = "0"
    /\ procedural.drawer.right = "0"
    /\ Present(listCart) # {}
    /\ cookie # Absent

====
